---- MODULE Spec2Model ----
(***************************************************************************)
(* The try-on workflow of the Virtual Fitting Room: the App component's    *)
(* state and handlers (src/App.tsx), the Gemini adapter operations         *)
(* (src/services/geminiService.ts) and the parts of ResultDisplay,         *)
(* ImageUploader and Clothing3DViewer that decide which handler the user   *)
(* can reach in which state.                                               *)
(*                                                                         *)
(* A step of the model is one macrotask of the browser's event loop: a UI  *)
(* event with its handler, or the arrival of a backend response with every *)
(* promise continuation it wakes.                                          *)
(*                                                                         *)
(* Strings are sequences of tokens (a token is a piece of text that the    *)
(* code never splits), so that template literals are concatenations and    *)
(* "contains" is a subsequence test.  A nullable value is <<>> (null or    *)
(* undefined) or <<v>>.                                                    *)
(***************************************************************************)
EXTENDS Integers, Sequences, FiniteSets, TLC

Null == <<>>
Some(x) == <<x>>

\* `x || fallback` for a string that may be undefined: "" is falsy too.
OrElse(optStr, fallback) ==
    IF optStr # Null /\ optStr[1] # <<>> THEN optStr[1] ELSE fallback

\* The outcome of a call: a returned value or a thrown Error with a message.
Return(v) == [threw |-> FALSE, value |-> <<v>>, message |-> <<>>]
Throw(m) == [threw |-> TRUE, value |-> <<>>, message |-> m]

Contains(s, t) ==
    \E i \in 0..(Len(s) - Len(t)) : SubSeq(s, i + 1, i + Len(t)) = t
StartsWith(s, p) == Len(s) >= Len(p) /\ SubSeq(s, 1, Len(p)) = p

SetMax(S) == CHOOSE x \in S : \A y \in S : y <= x
SetMin(S) == CHOOSE x \in S : \A y \in S : x <= y

---------------------------------------------------------------------------
(* Bounds *)

\* How many handler runs the model can hold in flight at once.
MaxRuns == 2

---------------------------------------------------------------------------
(* Fixed texts of the program *)

InvalidBase64Msg == <<"Invalid base64 string provided.">>
SafetyPrefix == <<"Safety Alert: ">>
SafetyDefaultReason == <<"This image cannot be processed due to safety guidelines.">>
UnableToVerifyReason == <<"Unable to verify image safety.">>
ServiceUnavailableMsg == <<"Security validation service is currently unavailable.">>
TryOnFailedMsg == <<"Failed to process the virtual try-on.">>
AdapterTryOnFailedMsg == <<"Failed to process virtual try-on.">>
NoImageMsg == <<"The model did not return an image. Please try a different photo or clothing item.">>
RefusedPrefix == <<"The model could not generate the image. Message: \"">>
RefusedSuffix == <<"...\"">>
ReviewEmptyFallback == <<"A sophisticated choice that complements your style perfectly.">>
ReviewFailedFallback == <<"This look is bold and stylish!">>
ProductFailedMsg == <<"Failed to visualize the recommended item.">>
ApplyFailedMsg == <<"Could not visualize item. Please try again.">>
PngPrefix == <<"data:", "image/png", ";base64,">>
PreviewLen == 100

---------------------------------------------------------------------------
(* parseBase64: /^data:(.+);base64,(.+)$/ on a token string.  "data:" and  *)
(* ";base64," are tokens; `.` matches any token but a line terminator and  *)
(* `+` needs at least one; the first group is greedy, so the separator is  *)
(* the last one that leaves a non-empty payload.                           *)

LineTerminators == {"\n", "\r"}

SeparatorPlaces(dataUrl) ==
    {k \in 3..(Len(dataUrl) - 1) :
        /\ dataUrl[1] = "data:"
        /\ dataUrl[k] = ";base64,"
        /\ \A i \in (2..(k - 1)) \cup ((k + 1)..Len(dataUrl)) :
              dataUrl[i] \notin LineTerminators}

\* A parser that cuts the string at its first separator and keeps what lies
\* between that and the next one, as dataUrl.split(";base64,") would.
parseBase64BySplit(dataUrl) ==
    IF SeparatorPlaces(dataUrl) = {}
    THEN Throw(InvalidBase64Msg)
    ELSE LET seps == {i \in DOMAIN dataUrl : dataUrl[i] = ";base64,"}
             k == SetMin(seps)
             rest == {i \in seps : i > k}
             end == IF rest = {} THEN Len(dataUrl) ELSE SetMin(rest) - 1
         IN  Return([mimeType |-> SubSeq(dataUrl, 2, k - 1),
                     data |-> SubSeq(dataUrl, k + 1, end)])

\* A parser with a silent default in place of the format error.
parseBase64Lenient(dataUrl) ==
    IF SeparatorPlaces(dataUrl) = {}
    THEN Return([mimeType |-> <<>>, data |-> <<>>])
    ELSE LET k == SetMax(SeparatorPlaces(dataUrl))
         IN  Return([mimeType |-> SubSeq(dataUrl, 2, k - 1),
                     data |-> SubSeq(dataUrl, k + 1, Len(dataUrl))])

parseBase64(dataUrl) ==
    IF SeparatorPlaces(dataUrl) = {}
    THEN Throw(InvalidBase64Msg)
    ELSE LET k == SetMax(SeparatorPlaces(dataUrl))
         IN  Return([mimeType |-> SubSeq(dataUrl, 2, k - 1),
                     data |-> SubSeq(dataUrl, k + 1, Len(dataUrl))])

---------------------------------------------------------------------------
(* What the backend can answer.  A response is a transport error (with the *)
(* error's message) or an answer with a text and a list of parts.  A JSON  *)
(* text is written <<"json", v>> for the value v it encodes; any other     *)
(* text makes JSON.parse throw.                                            *)

Response(err, msg, text, parts) ==
    [error |-> err, message |-> msg, text |-> text, parts |-> parts]
TransportError(msg) == Response(TRUE, msg, Null, <<>>)
TextResponse(text) == Response(FALSE, <<>>, text, <<>>)
PartsResponse(parts) == Response(FALSE, <<>>, Null, parts)

JsonText(v) == <<"json", v>>
NotJson == <<"not json">>
JSONparse(text) ==
    IF Len(text) = 2 /\ text[1] = "json"
    THEN Return(text[2])
    ELSE Throw(<<"Unexpected token in JSON">>)

ImagePart(data) == [inlineData |-> Some(data), text |-> Null]
TextPart(text) == [inlineData |-> Null, text |-> Some(text)]

\* A fenced json code block in a text, as one token.
JsonBlock == "<fenced json block>"
Whitespace == {" ", "\n", "\r"}

\* A schema-conformant safety verdict: both properties are optional.
SafetyVerdicts ==
    {[valid |-> v, reason |-> r] :
        v \in {Null, Some(TRUE), Some(FALSE)},
        r \in {Null, Some(<<>>), Some(<<"contains swimwear">>)}}

SafetyResponses ==
    {TransportError(<<"503">>), TextResponse(Null), TextResponse(Some(<<>>)),
     TextResponse(Some(NotJson))}
    \cup {TextResponse(Some(JsonText(v))) : v \in SafetyVerdicts}

ImageC == <<"CCCC">>
ImageD == <<"DDDD">>
ImageP == <<"PPPP">>

TryOnResponses ==
    {TransportError(<<"quota exceeded">>), TransportError(<<>>),
     PartsResponse(<<>>),
     PartsResponse(<<ImagePart(ImageC)>>),
     PartsResponse(<<TextPart(<<" ", "I cannot edit this photo", " ">>)>>),
     PartsResponse(<<TextPart(<<JsonBlock, " ">>)>>),
     PartsResponse(<<TextPart(<<"Here it is">>), ImagePart(ImageC)>>),
     PartsResponse(<<ImagePart(ImageD), ImagePart(ImageC)>>)}

Rec(name, category, reason, color) ==
    [itemName |-> name, category |-> category, reason |-> reason,
     colorHex |-> color]
RecList ==
    <<Rec(<<"Chelsea boots">>, <<"Shoes">>, <<"grounds the look">>, <<"#3B2F2F">>),
      Rec(<<"Silk scarf">>, <<"Accessories">>, <<"adds colour">>, <<"#C0392B">>)>>

RecommendationResponses ==
    {TransportError(<<"503">>), TextResponse(Null), TextResponse(Some(NotJson)),
     TextResponse(Some(JsonText(<<>>))), TextResponse(Some(JsonText(RecList)))}

ReviewT == <<"The cut flatters your shoulders.">>
ReviewResponses ==
    {TransportError(<<"503">>), TextResponse(Null), TextResponse(Some(<<>>)),
     Response(FALSE, <<>>, Some(ReviewT), <<>>)}

ProductResponses ==
    {TransportError(<<"503">>), PartsResponse(<<>>),
     PartsResponse(<<TextPart(<<"I cannot draw this">>)>>),
     PartsResponse(<<ImagePart(ImageP), ImagePart(ImageD)>>)}

---------------------------------------------------------------------------
(* The adapter operations, each split where its code is split: what it     *)
(* does before it issues its request (which may already reject it), and    *)
(* what it makes of the response.                                          *)

validateClothingSafetyStart(clothingImageBase64) ==
    parseBase64(clothingImageBase64)

\* A gate that fails open: a backend error passes the garment through.
validateClothingSafetyFailOpen(response) ==
    IF response.error
    THEN Return([valid |-> Some(TRUE), reason |-> Null])
    ELSE IF response.text # Null /\ response.text[1] # <<>>
         THEN LET result == JSONparse(response.text[1])
              IN  IF result.threw
                  THEN Throw(ServiceUnavailableMsg)
                  ELSE Return(result.value[1])
         ELSE Return([valid |-> Some(FALSE),
                      reason |-> Some(UnableToVerifyReason)])

validateClothingSafety(response) ==
    IF response.error
    THEN Throw(ServiceUnavailableMsg)
    ELSE IF response.text # Null /\ response.text[1] # <<>>
         THEN LET result == JSONparse(response.text[1])
              IN  IF result.threw
                  THEN Throw(ServiceUnavailableMsg)
                  ELSE Return(result.value[1])
         ELSE Return([valid |-> Some(FALSE),
                      reason |-> Some(UnableToVerifyReason)])

generateStylistReviewStart(userImageBase64, clothingImageBase64) ==
    IF parseBase64(userImageBase64).threw
    THEN parseBase64(userImageBase64)
    ELSE parseBase64(clothingImageBase64)

\* A generateStylistReview that rethrows the backend error.
generateStylistReviewRethrows(response) ==
    IF response.error
    THEN Throw(response.message)
    ELSE Return(OrElse(response.text, ReviewEmptyFallback))

generateStylistReview(response) ==
    IF response.error
    THEN Return(ReviewFailedFallback)
    ELSE Return(OrElse(response.text, ReviewEmptyFallback))

generateTryOnStart(userImageBase64, clothingImageBase64) ==
    IF parseBase64(userImageBase64).threw
    THEN parseBase64(userImageBase64)
    ELSE parseBase64(clothingImageBase64)

\* textPart.replace: every fenced json block is removed.
StripJsonBlocks(text) == SelectSeq(text, LAMBDA t : t # JsonBlock)

\* String.prototype.trim
Trim(text) ==
    LET keep == {i \in DOMAIN text : text[i] \notin Whitespace}
    IN  IF keep = {} THEN <<>> ELSE SubSeq(text, SetMin(keep), SetMax(keep))

\* String.prototype.substring(0, n)
Substring0(text, n) == SubSeq(text, 1, IF Len(text) < n THEN Len(text) ELSE n)

\* parts.find(p => p.text)?.text
FirstText(parts) ==
    LET has == {i \in DOMAIN parts :
                    parts[i].text # Null /\ parts[i].text[1] # <<>>}
    IN  IF has = {} THEN Null ELSE parts[SetMin(has)].text

InlinePlaces(parts) == {i \in DOMAIN parts : parts[i].inlineData # Null}

\* The body of the try block of generateTryOn.
generateTryOnBody(response) ==
    IF response.error
    THEN Throw(response.message)
    ELSE IF InlinePlaces(response.parts) # {}
         THEN Return([imageUrl |->
                 PngPrefix \o response.parts[SetMax(InlinePlaces(response.parts))].inlineData[1]])
         ELSE LET textPart == FirstText(response.parts)
                  cleanFeedback ==
                      IF textPart = Null THEN <<>>
                      ELSE Trim(StripJsonBlocks(textPart[1]))
              IN  IF Len(cleanFeedback) > 0
                  THEN Throw(RefusedPrefix \o Substring0(cleanFeedback, PreviewLen)
                             \o RefusedSuffix)
                  ELSE Throw(NoImageMsg)

\* A generateTryOn that degrades as the two enrichment operations do: a
\* failure becomes a result without an image.
generateTryOnDegrades(response) ==
    LET inner == generateTryOnBody(response)
    IN  IF inner.threw THEN Return([imageUrl |-> <<>>]) ELSE inner

generateTryOn(response) ==
    LET inner == generateTryOnBody(response)
    IN  IF inner.threw
        THEN Throw(OrElse(Some(inner.message), AdapterTryOnFailedMsg))
        ELSE inner

generateStyleRecommendationsStart(clothingImageBase64) ==
    parseBase64(clothingImageBase64)

\* A generateStyleRecommendations that rethrows the backend error.
generateStyleRecommendationsRethrows(response) ==
    IF response.error
    THEN Throw(response.message)
    ELSE IF response.text # Null /\ response.text[1] # <<>>
         THEN LET parsed == JSONparse(response.text[1])
              IN  IF parsed.threw THEN Return(<<>>) ELSE Return(parsed.value[1])
         ELSE Return(<<>>)

generateStyleRecommendations(response) ==
    IF response.error
    THEN Return(<<>>)
    ELSE IF response.text # Null /\ response.text[1] # <<>>
         THEN LET parsed == JSONparse(response.text[1])
              IN  IF parsed.threw THEN Return(<<>>) ELSE Return(parsed.value[1])
         ELSE Return(<<>>)

generateProductImageBody(response) ==
    IF response.error
    THEN Throw(response.message)
    ELSE IF InlinePlaces(response.parts) # {}
         THEN Return(PngPrefix
                     \o response.parts[SetMin(InlinePlaces(response.parts))].inlineData[1])
         ELSE LET textPart == FirstText(response.parts)
              IN  IF textPart # Null
                  THEN Throw(<<"Model returned text: ">>
                             \o Substring0(Trim(StripJsonBlocks(textPart[1])), 50) \o <<"...">>)
                  ELSE Throw(<<"No image generated">>)

generateProductImage(response) ==
    IF generateProductImageBody(response).threw
    THEN Throw(ProductFailedMsg)
    ELSE generateProductImageBody(response)

---------------------------------------------------------------------------
(* Files the user can pick, and frames the 3D viewer can capture *)

ImageFile(name, previewUrl, base64) ==
    [file |-> name, previewUrl |-> previewUrl, base64 |-> base64]

\* FileReader.readAsDataURL gives "data:" alone for an empty file.
PhotoA == ImageFile(<<"me", ".jpg">>, <<"blob:", "1">>,
                    <<"data:", "image/jpeg", ";base64,", "AAAA">>)
EmptyPhoto == ImageFile(<<"empty", ".jpg">>, <<"blob:", "2">>, <<"data:">>)
GarmentB == ImageFile(<<"shirt", ".png">>, <<"blob:", "3">>,
                      <<"data:", "image/png", ";base64,", "BBBB">>)
EmptyGarment == ImageFile(<<"empty", ".png">>, <<"blob:", "4">>, <<"data:">>)
GarmentModel == ImageFile(<<"jacket", ".GLB">>, <<"blob:", "5">>,
                          <<"data:", "model/gltf-binary", ";base64,", "GGGG">>)

UserFiles == {PhotoA, EmptyPhoto}
ClothingFiles == {GarmentB, EmptyGarment, GarmentModel}
SnapshotData == PngPrefix \o <<"SSSS">>
InstructionTexts == {<<>>, <<"Tuck in the shirt">>}
RotationMin == 0
RotationMax == 360
RotationValues == {RotationMin, 90, RotationMax}

\* file.name.match(/\.(glb|gltf)$/i): the name ends in the extension token.
ModelExtensions == {".glb", ".gltf", ".GLB", ".GLTF"}
IsModelFileName(name) == Len(name) > 0 /\ name[Len(name)] \in ModelExtensions

PoseOriginal == <<"original">>
PoseDegrees(n) == <<"degrees", n>>

---------------------------------------------------------------------------
(* State *)

VARIABLES
    userImage, clothingImage, clothingModelUrl, instructions, rotation,
    useCustomRotation, status, result, error,   \* useState of App
    loadingRecIndex,                            \* useState of ResultDisplay
    captureTrigger,                             \* useState of Clothing3DViewer
    changedDeps, \* the dependencies of the capture effect of SceneContent
                 \* that changed since the effect last ran
    runs,        \* the handler runs suspended at an await
    inflight,    \* the backend requests a suspended run awaits
    last         \* history: what the last step was and did

appVars ==
    <<userImage, clothingImage, clothingModelUrl, instructions, rotation,
      useCustomRotation, status, result, error>>
viewerVars == <<captureTrigger, changedDeps>>
vars == <<appVars, loadingRecIndex, viewerVars, runs, inflight, last>>

GenerationOps ==
    {"generateTryOn", "generateStyleRecommendations", "generateStylistReview"}

\* The history of a step: the event; for an answered request the operation,
\* the run that awaited it, the request as it was issued (kept for the
\* requests a run awaits alone) and the response; the requests the step
\* issued, with their arguments; the run the step ended, as it was at its
\* end; the requests of that run which the step left unanswered; the status
\* the step started from; and, for a step that is a call of an adapter
\* operation on its own, what the call came to.
Step(ev, op, run, request, response, issued, finished, abandoned) ==
    [ev |-> ev, op |-> op, run |-> run, request |-> request,
     response |-> response, issued |-> issued, finished |-> finished,
     abandoned |-> abandoned, from |-> status, outcome |-> Null]
Event(ev) == Step(ev, "", 0, Null, Null, {}, Null, {})

\* A request to the backend as it is issued: the operation, the run that
\* awaits it and the arguments the operation was called with.
Call(op, run, user, clothing, ins, pose, rec) ==
    [op |-> op, run |-> run, userImageBase64 |-> user,
     clothingImageBase64 |-> clothing, instructions |-> ins, pose |-> pose,
     recommendation |-> rec]

\* A run of handleTryOn suspended at an await.  The values of userImage,
\* clothingImage, instructions and pose are those of the render whose handler
\* was called; the code reads them for the last time at line 39, so the run
\* stops carrying them there.  `request` is history: the request the run
\* awaits alone, as it was issued.
TryOnRun(id, user, clothing, ins, pose) ==
    [id |-> id, kind |-> "handleTryOn", pc |-> "validateClothingSafety",
     userImage |-> Some(user), clothingImage |-> Some(clothing),
     instructions |-> ins, pose |-> pose, rec |-> Null,
     request |-> Some(Call("validateClothingSafety", id, Null,
                           Some(clothing.base64), Null, Null, Null)),
     safetyCheck |-> Null,
     tryOnResult |-> Null, recommendations |-> Null, stylistReview |-> Null]

ApplyRun(id, rec) ==
    [id |-> id, kind |-> "handleApplyRecommendation", pc |-> "generateProductImage",
     userImage |-> Null, clothingImage |-> Null,
     instructions |-> <<>>, pose |-> PoseOriginal, rec |-> Some(rec),
     request |-> Some(Call("generateProductImage", id, Null, Null, Null, Null,
                           Some(rec))),
     safetyCheck |-> Null,
     tryOnResult |-> Null, recommendations |-> Null, stylistReview |-> Null]

\* A request in flight.  Nothing reads a request's arguments once it is
\* issued, and nothing reads the answer to a request whose run has ended.
Pending(calls) == {[op |-> c.op, run |-> c.run] : c \in calls}

FreeRunIds == (1..MaxRuns) \ {r.id : r \in runs}
CallsOf(r) == {c \in inflight : c.run = r.id}

Init ==
    /\ userImage = Null
    /\ clothingImage = Null
    /\ clothingModelUrl = Null
    /\ instructions = <<>>
    /\ rotation = 0
    /\ useCustomRotation = FALSE
    /\ status = "IDLE"
    /\ result = Null
    /\ error = Null
    /\ loadingRecIndex = Null
    /\ captureTrigger = 0
    /\ changedDeps = {}
    /\ runs = {}
    /\ inflight = {}
    /\ last = Event("init")

---------------------------------------------------------------------------
(* Input capture *)

\* ImageUploader "user-upload": onImageChange is setUserImage.
UploadUserImageFrom(files) ==
    /\ \E f \in files : userImage' = Some(f)
    /\ last' = Event("input")
    /\ UNCHANGED <<clothingImage, clothingModelUrl, instructions, rotation,
                   useCustomRotation, status, result, error, loadingRecIndex,
                   runs, inflight>>

UploadUserImage == UploadUserImageFrom(UserFiles)

\* ImageUploader.clearImage of the user photo (its button shows with an image).
ClearUserImage ==
    /\ userImage # Null
    /\ userImage' = Null
    /\ last' = Event("input")
    /\ UNCHANGED <<clothingImage, clothingModelUrl, instructions, rotation,
                   useCustomRotation, status, result, error, loadingRecIndex,
                   runs, inflight>>

handleClothingUpload(fileData) ==
    IF fileData = Null
    THEN clothingImage' = Null /\ clothingModelUrl' = Null
    ELSE IF IsModelFileName(fileData[1].file)
         THEN clothingModelUrl' = Some(fileData[1].previewUrl) /\ clothingImage' = Null
         ELSE clothingModelUrl' = Null /\ clothingImage' = fileData

\* ImageUploader "clothing-upload", rendered while no 3D model is selected.
UploadClothingFrom(files) ==
    /\ clothingModelUrl = Null
    /\ \E f \in files : handleClothingUpload(Some(f))
    /\ last' = Event("input")
    /\ UNCHANGED <<userImage, instructions, rotation, useCustomRotation, status,
                   result, error, loadingRecIndex, runs, inflight>>

UploadClothing == UploadClothingFrom(ClothingFiles)

ClearClothingImage ==
    /\ clothingModelUrl = Null
    /\ clothingImage # Null
    /\ handleClothingUpload(Null)
    /\ last' = Event("input")
    /\ UNCHANGED <<userImage, instructions, rotation, useCustomRotation, status,
                   result, error, loadingRecIndex, runs, inflight>>

handle3DSnapshot(base64Data) ==
    clothingImage' = Some(ImageFile(<<"snapshot", ".png">>, base64Data, base64Data))

\* The presses of Capture View one mounted viewer takes.
MaxCaptures == 1

\* Clothing3DViewer.handleCapture: a press of Capture View, rendered while a
\* 3D model is selected.  setCaptureTrigger renders the viewer again, and
\* SceneContent with a new captureTrigger.
handleCapture ==
    /\ clothingModelUrl # Null
    /\ captureTrigger < MaxCaptures
    /\ captureTrigger' = captureTrigger + 1
    /\ changedDeps' = changedDeps \cup {"captureTrigger"}
    /\ last' = Event("input")
    /\ UNCHANGED <<appVars, loadingRecIndex, runs, inflight>>

\* The capture effect of SceneContent, lines 70 to 77.  React runs it after a
\* commit in which one of its dependencies differs from the value the effect
\* last ran with.  It renders the frame and hands it to onCapture, which is
\* handle3DSnapshot: a new object is set as the garment, so App renders
\* again, and every render of App makes a new handle3DSnapshot and passes it
\* down as onCapture.  `op` of the step is the dependency that made it run.
CaptureEffect ==
    /\ clothingModelUrl # Null
    /\ changedDeps # {}
    /\ captureTrigger > 0
    /\ handle3DSnapshot(SnapshotData)
    /\ changedDeps' = {"onCapture"}
    /\ last' = [Event("capture") EXCEPT
                   !.op = IF "captureTrigger" \in changedDeps
                          THEN "captureTrigger" ELSE "onCapture"]
    /\ UNCHANGED <<userImage, clothingModelUrl, instructions, rotation,
                   useCustomRotation, status, result, error, loadingRecIndex,
                   captureTrigger, runs, inflight>>

\* The commit that ends a step of App.  The viewer is mounted while a 3D
\* model is selected, and a new mount starts with captureTrigger 0.  A step
\* that rendered App passed the viewer a new onCapture.  A run of the effect
\* with captureTrigger 0 does nothing (line 71) and is no step of its own.
Commit(rendered) ==
    IF clothingModelUrl = Null \/ clothingModelUrl' = Null
    THEN captureTrigger' = 0 /\ changedDeps' = {}
    ELSE /\ UNCHANGED captureTrigger
         /\ changedDeps' = IF rendered /\ captureTrigger > 0
                           THEN changedDeps \cup {"onCapture"}
                           ELSE changedDeps

\* A step that set state of App rendered it.
Rendered == appVars' # appVars

\* The X button over the 3D viewer.
clearClothing ==
    /\ clothingModelUrl # Null
    /\ clothingImage' = Null
    /\ clothingModelUrl' = Null
    /\ last' = Event("input")
    /\ UNCHANGED <<userImage, instructions, rotation, useCustomRotation, status,
                   result, error, loadingRecIndex, runs, inflight>>

ToggleCustomRotation ==
    /\ useCustomRotation' = ~useCustomRotation
    /\ last' = Event("input")
    /\ UNCHANGED <<userImage, clothingImage, clothingModelUrl, instructions,
                   rotation, status, result, error, loadingRecIndex, runs, inflight>>

\* The Target Angle slider, rendered while custom rotation is on.
SetRotation ==
    /\ useCustomRotation
    /\ \E n \in RotationValues : rotation' = n
    /\ last' = Event("input")
    /\ UNCHANGED <<userImage, clothingImage, clothingModelUrl, instructions,
                   useCustomRotation, status, result, error, loadingRecIndex,
                   runs, inflight>>

SetInstructions ==
    /\ \E t \in InstructionTexts : instructions' = t
    /\ last' = Event("input")
    /\ UNCHANGED <<userImage, clothingImage, clothingModelUrl, rotation,
                   useCustomRotation, status, result, error, loadingRecIndex,
                   runs, inflight>>

---------------------------------------------------------------------------
(* The orchestrator: handleTryOn *)

isFormValid == userImage # Null /\ clothingImage # Null

\* A Generate button that looks at the assets alone.
GenerateDisabledByAssetsOnly == ~isFormValid

\* The disabled attribute of the Generate button.
GenerateDisabled == ~isFormValid \/ status = "PROCESSING"

\* A test for the presence of the boolean in place of its truth.
TruthyWhenPresent(optBool) == optBool # Null

\* A JavaScript truthiness test of an optional boolean.
Truthy(optBool) == optBool # Null /\ optBool[1] = TRUE

\* A catch block that shows the generic text whatever was thrown.
catchTryOnGeneric(message) ==
    /\ error' = Some(TryOnFailedMsg)
    /\ status' = "ERROR"

\* Writes on entering PROCESSING that leave the result of the last cycle.
enterProcessingKeepsResult ==
    /\ status' = "PROCESSING"
    /\ error' = Null
    /\ UNCHANGED result

\* Writes on entering PROCESSING that leave the message of the last failure.
enterProcessingKeepsError ==
    /\ status' = "PROCESSING"
    /\ result' = Null
    /\ UNCHANGED error

\* Lines 23 to 25: the writes of handleTryOn before its try block.
enterProcessing ==
    /\ status' = "PROCESSING"
    /\ error' = Null
    /\ result' = Null

\* The catch block of handleTryOn.
catchTryOn(message) ==
    /\ error' = Some(OrElse(Some(message), TryOnFailedMsg))
    /\ status' = "ERROR"

\* A pose that is the slider's angle whether or not custom rotation is on.
poseIgnoresToggle == PoseDegrees(rotation)

\* Line 27: the pose of the cycle.
pose == IF useCustomRotation THEN PoseDegrees(rotation) ELSE PoseOriginal

\* handleTryOn up to its first await.  A garment string that parseBase64
\* refuses rejects validateClothingSafety before any request is made, and the
\* catch block runs in the same macrotask.
handleTryOn ==
    IF userImage = Null \/ clothingImage = Null
    THEN /\ last' = Event("generate")
         /\ UNCHANGED <<appVars, loadingRecIndex, runs, inflight>>
    ELSE LET started == validateClothingSafetyStart(clothingImage[1].base64)
             run(id) == TryOnRun(id, userImage[1], clothingImage[1],
                                 instructions, pose)
         IN  /\ IF started.threw
                THEN /\ result' = Null
                     /\ catchTryOn(started.message)
                     /\ last' = Step("generate", "", 0, Null, Null, {},
                                     Some([run(0) EXCEPT !.request = Null]), {})
                     /\ UNCHANGED <<runs, inflight>>
                ELSE /\ FreeRunIds # {}
                     /\ enterProcessing
                     /\ runs' = runs \cup {run(SetMin(FreeRunIds))}
                     /\ inflight' = inflight \cup
                                    Pending({run(SetMin(FreeRunIds)).request[1]})
                     /\ last' = Step("generate", "", SetMin(FreeRunIds), Null, Null,
                                     {run(SetMin(FreeRunIds)).request[1]}, Null, {})
             /\ UNCHANGED <<userImage, clothingImage, clothingModelUrl, instructions,
                            rotation, useCustomRotation, loadingRecIndex>>

\* A generate action whose guard comes after the handler's first writes,
\* with a button that does not look at the assets.
GenerateWritesBeforeGuard ==
    IF status = "PROCESSING"
    THEN /\ last' = Event("generate")
         /\ UNCHANGED <<appVars, loadingRecIndex, runs, inflight>>
    ELSE IF ~isFormValid
         THEN /\ last' = Event("generate")
              /\ status' = "PROCESSING"
              /\ error' = Null
              /\ result' = Null
              /\ UNCHANGED <<userImage, clothingImage, clothingModelUrl,
                             instructions, rotation, useCustomRotation,
                             loadingRecIndex, runs, inflight>>
         ELSE handleTryOn

\* A generate action behind a button that is never disabled: the guard of
\* the handler alone.
GenerateWithoutButton == handleTryOn

\* The user's generate action: a press of the Generate button, which reaches
\* handleTryOn only while the button is not disabled.
Generate ==
    IF GenerateDisabled
    THEN /\ last' = Event("generate")
         /\ UNCHANGED <<appVars, loadingRecIndex, runs, inflight>>
    ELSE handleTryOn

\* The end of the run r of handleTryOn in its catch block, on the answer
\* `response` to its request of `op`; `final` is the run as it ends, `issued`
\* are the requests the step made before, `left` the requests of the run
\* still unanswered.
RunFails(r, final, op, response, message, issued, left) ==
    /\ catchTryOn(message)
    /\ runs' = runs \ {r}
    /\ inflight' = inflight \ CallsOf(r)
    /\ last' = Step("settle", op, r.id, r.request, Some(response), issued,
                    Some(final), Pending(left))
    /\ UNCHANGED <<userImage, clothingImage, clothingModelUrl, instructions,
                   rotation, useCustomRotation, result>>

\* Requests made from the state of App as it is when the gate has answered,
\* in place of the values the run captured.
fanOutCallsFromCurrentState(r) ==
    LET user == IF userImage = Null THEN <<>> ELSE userImage[1].base64
        clothing == IF clothingImage = Null THEN <<>> ELSE clothingImage[1].base64
    IN  (IF generateTryOnStart(user, clothing).threw THEN {}
         ELSE {Call("generateTryOn", r.id, Some(user), Some(clothing),
                    Some(instructions), Some(pose), Null)})
        \cup (IF generateStyleRecommendationsStart(clothing).threw THEN {}
              ELSE {Call("generateStyleRecommendations", r.id, Null,
                         Some(clothing), Null, Null, Null)})
        \cup (IF generateStylistReviewStart(user, clothing).threw THEN {}
              ELSE {Call("generateStylistReview", r.id, Some(user),
                         Some(clothing), Null, Null, Null)})

\* An array literal of line 36 without its last element: the review is not
\* called.
fanOutCallsWithoutReview(r) ==
    LET user == r.userImage[1].base64
        clothing == r.clothingImage[1].base64
    IN  (IF generateTryOnStart(user, clothing).threw THEN {}
         ELSE {Call("generateTryOn", r.id, Some(user), Some(clothing),
                    Some(r.instructions), Some(r.pose), Null)})
        \cup (IF generateStyleRecommendationsStart(clothing).threw THEN {}
              ELSE {Call("generateStyleRecommendations", r.id, Null,
                         Some(clothing), Null, Null, Null)})

\* Lines 37 to 39: the requests of the three generation operations, each
\* called with the values the run captured; an operation that rejects before
\* its request issues none.
fanOutCalls(r) ==
    LET user == r.userImage[1].base64
        clothing == r.clothingImage[1].base64
    IN  (IF generateTryOnStart(user, clothing).threw THEN {}
         ELSE {Call("generateTryOn", r.id, Some(user), Some(clothing),
                    Some(r.instructions), Some(r.pose), Null)})
        \cup (IF generateStyleRecommendationsStart(clothing).threw THEN {}
              ELSE {Call("generateStyleRecommendations", r.id, Null,
                         Some(clothing), Null, Null, Null)})
        \cup (IF generateStylistReviewStart(user, clothing).threw THEN {}
              ELSE {Call("generateStylistReview", r.id, Some(user),
                         Some(clothing), Null, Null, Null)})

\* Lines 36 to 40: the three generation operations are called, in the order
\* of the array literal; each may reject before it issues its request.
\* Promise.all rejects with the first rejection; with none the run waits.
FanOut(r, response, safetyCheck) ==
    LET user == r.userImage[1].base64
        clothing == r.clothingImage[1].base64
        tryOn == generateTryOnStart(user, clothing)
        recs == generateStyleRecommendationsStart(clothing)
        review == generateStylistReviewStart(user, clothing)
        issued == fanOutCalls(r)
        waiting == [r EXCEPT !.pc = "Promise.all",
                             !.safetyCheck = Some(safetyCheck),
                             !.userImage = Null, !.clothingImage = Null,
                             !.instructions = <<>>, !.pose = PoseOriginal,
                             !.request = Null]
    IN  IF tryOn.threw \/ recs.threw \/ review.threw
        THEN RunFails(r, [r EXCEPT !.safetyCheck = Some(safetyCheck)],
                      "validateClothingSafety", response,
                      IF tryOn.threw THEN tryOn.message
                      ELSE IF recs.threw THEN recs.message
                      ELSE review.message,
                      issued, issued)
        ELSE /\ runs' = (runs \ {r}) \cup {waiting}
             /\ inflight' = (inflight \ CallsOf(r)) \cup Pending(issued)
             /\ last' = Step("settle", "validateClothingSafety", r.id,
                             r.request, Some(response), issued, Null, {})
             /\ UNCHANGED appVars

\* The safety gate's request is answered: validateClothingSafety settles and
\* handleTryOn resumes after its first await.
SafetyCheckSettlesOn(responses) ==
    \E r \in runs, response \in responses :
        /\ r.pc = "validateClothingSafety"
        /\ LET out == validateClothingSafety(response)
           IN  IF out.threw
               THEN RunFails(r, r, "validateClothingSafety", response,
                             out.message, {}, {})
               ELSE IF ~Truthy(out.value[1].valid)
                    THEN RunFails(r, [r EXCEPT !.safetyCheck = out.value],
                                  "validateClothingSafety", response,
                                  SafetyPrefix \o OrElse(out.value[1].reason,
                                                         SafetyDefaultReason),
                                  {}, {})
                    ELSE FanOut(r, response, out.value[1])
        /\ UNCHANGED loadingRecIndex

SafetyCheckSettles == SafetyCheckSettlesOn(SafetyResponses)

\* A result assembled without the recommendations.
setResultWithoutRecommendations(r2) ==
    result' = Some([imageUrl |-> r2.tryOnResult[1].value.imageUrl,
                    recommendations |-> <<>>,
                    feedback |-> r2.stylistReview[1].value])

\* Lines 42 to 46: setResult with the values of the three fulfilled promises.
setResult(r2) ==
    result' = Some([imageUrl |-> r2.tryOnResult[1].value.imageUrl,
                    recommendations |-> r2.recommendations[1].value,
                    feedback |-> r2.stylistReview[1].value])

\* One of the three promises handed to Promise.all settles as `out` on the
\* answer `response` to its request c; r2 is the run with the answer stored.
\* A rejection rejects Promise.all at once; the last fulfilment resumes
\* handleTryOn at line 42.
PromiseAllStep(r, c, response, out, r2) ==
    IF out.threw
    THEN RunFails(r, r, c.op, response, out.message, {}, CallsOf(r) \ {c})
    ELSE IF r2.tryOnResult # Null /\ r2.recommendations # Null
                /\ r2.stylistReview # Null
         THEN /\ setResult(r2)
              /\ status' = "SUCCESS"
              /\ runs' = runs \ {r}
              /\ inflight' = inflight \ {c}
              /\ last' = Step("settle", c.op, r.id, Null, Some(response), {},
                              Some(r2), {})
              /\ UNCHANGED <<userImage, clothingImage, clothingModelUrl,
                             instructions, rotation, useCustomRotation, error>>
         ELSE /\ runs' = (runs \ {r}) \cup {r2}
              /\ inflight' = inflight \ {c}
              /\ last' = Step("settle", c.op, r.id, Null, Some(response), {},
                              Null, {})
              /\ UNCHANGED appVars

\* What a run keeps of a settled promise: the value, and as history the
\* response it was made from.
Answer(response, out) == Some([response |-> response, value |-> out.value[1]])

TryOnSettlesOn(responses) ==
    \E r \in runs, response \in responses :
        \E c \in CallsOf(r) :
            /\ c.op = "generateTryOn"
            /\ LET out == generateTryOn(response)
               IN  PromiseAllStep(r, c, response, out,
                       [r EXCEPT !.tryOnResult = Answer(response, out)])
            /\ UNCHANGED loadingRecIndex

TryOnSettles == TryOnSettlesOn(TryOnResponses)

RecommendationsSettleOn(responses) ==
    \E r \in runs, response \in responses :
        \E c \in CallsOf(r) :
            /\ c.op = "generateStyleRecommendations"
            /\ LET out == generateStyleRecommendations(response)
               IN  PromiseAllStep(r, c, response, out,
                       [r EXCEPT !.recommendations = Answer(response, out)])
            /\ UNCHANGED loadingRecIndex

RecommendationsSettle == RecommendationsSettleOn(RecommendationResponses)

ReviewSettlesOn(responses) ==
    \E r \in runs, response \in responses :
        \E c \in CallsOf(r) :
            /\ c.op = "generateStylistReview"
            /\ LET out == generateStylistReview(response)
               IN  PromiseAllStep(r, c, response, out,
                       [r EXCEPT !.stylistReview = Answer(response, out)])
            /\ UNCHANGED loadingRecIndex

ReviewSettles == ReviewSettlesOn(ReviewResponses)

\* A reset that leaves the error message.
handleResetKeepsError ==
    /\ status' = "IDLE"
    /\ result' = Null
    /\ UNCHANGED error

handleReset ==
    /\ status' = "IDLE"
    /\ result' = Null
    /\ error' = Null

\* The Reset button (ERROR view) and Start New Session (SUCCESS view).
Reset ==
    /\ status \in {"ERROR", "SUCCESS"}
    /\ handleReset
    /\ last' = Event("reset")
    /\ UNCHANGED <<userImage, clothingImage, clothingModelUrl, instructions,
                   rotation, useCustomRotation, loadingRecIndex, runs, inflight>>

---------------------------------------------------------------------------
(* The orchestrator: handleApplyRecommendation *)

\* handleApplyRecommendation up to its await.
handleApplyRecommendation(rec) ==
    LET run == ApplyRun(SetMin(FreeRunIds), rec)
        call == run.request[1]
    IN  /\ FreeRunIds # {}
        /\ status' = "PROCESSING"
        /\ runs' = runs \cup {run}
        /\ inflight' = inflight \cup Pending({call})
        /\ last' = Step("recommendationClick", "", run.id, Null, Null, {call},
                        Null, {})
        /\ UNCHANGED <<userImage, clothingImage, clothingModelUrl, instructions,
                       rotation, useCustomRotation, result, error>>

\* Cards that are rendered whenever a result is held and nothing is running.
RecommendationClickWheneverResult ==
    /\ status # "PROCESSING"
    /\ result # Null
    /\ \E index \in DOMAIN result[1].recommendations :
          /\ loadingRecIndex' = Some(index)
          /\ handleApplyRecommendation(result[1].recommendations[index])

\* A click on a recommendation card; the cards are rendered by the last
\* branch of ResultDisplay, taken when status is none of IDLE, PROCESSING, ERROR.
RecommendationClick ==
    /\ status \notin {"IDLE", "PROCESSING", "ERROR"}
    /\ result # Null
    /\ \E index \in DOMAIN result[1].recommendations :
          /\ loadingRecIndex' = Some(index)
          /\ handleApplyRecommendation(result[1].recommendations[index])

\* Writes after the await that leave the 3D model selected.
applySucceededKeepsModel(rec, base64Image) ==
    /\ clothingImage' =
           Some(ImageFile(rec.itemName \o <<".png">>, base64Image, base64Image))
    /\ instructions' = <<"Trying on ">> \o rec.colorHex \o <<" ">> \o rec.itemName
    /\ result' = Null
    /\ status' = "IDLE"
    /\ UNCHANGED <<clothingModelUrl, error>>

\* Lines 65 to 76: the writes of handleApplyRecommendation after its await.
applySucceeded(rec, base64Image) ==
    /\ clothingImage' =
           Some(ImageFile(rec.itemName \o <<".png">>, base64Image, base64Image))
    /\ clothingModelUrl' = Null
    /\ instructions' = <<"Trying on ">> \o rec.colorHex \o <<" ">> \o rec.itemName
    /\ result' = Null
    /\ status' = "IDLE"
    /\ UNCHANGED error

\* A catch block that sets the message and leaves the status.
applyFailedKeepsStatus ==
    /\ error' = Some(ApplyFailedMsg)
    /\ UNCHANGED <<status, clothingImage, clothingModelUrl, instructions, result>>

\* A catch block that ends in ERROR as the one of handleTryOn does.
applyFailedAsError ==
    /\ error' = Some(ApplyFailedMsg)
    /\ status' = "ERROR"
    /\ UNCHANGED <<clothingImage, clothingModelUrl, instructions, result>>

\* The catch block of handleApplyRecommendation.
applyFailed ==
    /\ error' = Some(ApplyFailedMsg)
    /\ status' = "IDLE"
    /\ UNCHANGED <<clothingImage, clothingModelUrl, instructions, result>>

ProductImageSettlesOn(responses) ==
    \E r \in runs, response \in responses :
        /\ r.pc = "generateProductImage"
        /\ LET out == generateProductImage(response)
           IN  IF out.threw
               THEN applyFailed
               ELSE applySucceeded(r.rec[1], out.value[1])
        /\ runs' = runs \ {r}
        /\ inflight' = inflight \ CallsOf(r)
        /\ last' = Step("settle", "generateProductImage", r.id, r.request,
                        Some(response), {}, Some(r), {})
        /\ UNCHANGED <<userImage, rotation, useCustomRotation, loadingRecIndex>>

ProductImageSettles == ProductImageSettlesOn(ProductResponses)

---------------------------------------------------------------------------
(* Presentation *)

IdleText ==
    <<"Waiting for your input. Upload a model and a garment to begin the transformation.">>
ProcessingText == <<"Designing...">>
ErrorDefaultText == <<"We encountered an issue. Please check your inputs.">>

\* What ResultDisplay renders of its props: the texts and images of the
\* branch its status selects.  App renders the error nowhere else.
ResultDisplay ==
    IF status = "IDLE" THEN {IdleText}
    ELSE IF status = "PROCESSING" THEN {ProcessingText}
    ELSE IF status = "ERROR" THEN {OrElse(error, ErrorDefaultText)}
    ELSE IF result = Null THEN {}
    ELSE (IF result[1].imageUrl # <<>> THEN {result[1].imageUrl} ELSE {})
         \cup (IF result[1].feedback # <<>> THEN {result[1].feedback} ELSE {})
         \cup UNION {{result[1].recommendations[i].category,
                      result[1].recommendations[i].itemName,
                      result[1].recommendations[i].reason} :
                        i \in DOMAIN result[1].recommendations}

---------------------------------------------------------------------------
(* Spec: every answer of the backend, with the asset inputs. *)

Next ==
    \/ UploadUserImage /\ Commit(TRUE)
    \/ ClearUserImage /\ Commit(Rendered)
    \/ UploadClothing /\ Commit(TRUE)
    \/ ClearClothingImage /\ Commit(Rendered)
    \/ handleCapture
    \/ CaptureEffect
    \/ clearClothing /\ Commit(Rendered)
    \/ Generate /\ Commit(Rendered)
    \/ SafetyCheckSettles /\ Commit(Rendered)
    \/ TryOnSettles /\ Commit(Rendered)
    \/ RecommendationsSettle /\ Commit(Rendered)
    \/ ReviewSettles /\ Commit(Rendered)
    \/ Reset /\ Commit(Rendered)
    \/ RecommendationClick /\ Commit(Rendered)
    \/ ProductImageSettles /\ Commit(Rendered)

Spec == Init /\ [][Next]_vars

---------------------------------------------------------------------------
(* SpecInputs: every input control, with well-formed files and one answer  *)
(* of the backend for each way an operation can end.                       *)

WellFormedUserFiles == {PhotoA}
WellFormedClothingFiles == {GarmentB, GarmentModel}
BriefSafetyResponses ==
    {TransportError(<<"503">>),
     TextResponse(Some(JsonText([valid |-> Some(TRUE), reason |-> Null]))),
     TextResponse(Some(JsonText([valid |-> Some(FALSE),
                                 reason |-> Some(<<"contains swimwear">>)])))}
BriefTryOnResponses ==
    {TransportError(<<"quota exceeded">>), PartsResponse(<<ImagePart(ImageC)>>)}
BriefRecommendationResponses ==
    {TransportError(<<"503">>), TextResponse(Some(JsonText(RecList)))}
BriefReviewResponses == {Response(FALSE, <<>>, Some(ReviewT), <<>>)}
BriefProductResponses ==
    {TransportError(<<"503">>), PartsResponse(<<ImagePart(ImageP)>>)}

NextInputs ==
    \/ UploadUserImageFrom(WellFormedUserFiles) /\ Commit(TRUE)
    \/ ClearUserImage /\ Commit(Rendered)
    \/ UploadClothingFrom(WellFormedClothingFiles) /\ Commit(TRUE)
    \/ ClearClothingImage /\ Commit(Rendered)
    \/ handleCapture
    \/ CaptureEffect
    \/ clearClothing /\ Commit(Rendered)
    \/ ToggleCustomRotation /\ Commit(Rendered)
    \/ SetRotation /\ Commit(Rendered)
    \/ SetInstructions /\ Commit(Rendered)
    \/ Generate /\ Commit(Rendered)
    \/ SafetyCheckSettlesOn(BriefSafetyResponses) /\ Commit(Rendered)
    \/ TryOnSettlesOn(BriefTryOnResponses) /\ Commit(Rendered)
    \/ RecommendationsSettleOn(BriefRecommendationResponses) /\ Commit(Rendered)
    \/ ReviewSettlesOn(BriefReviewResponses) /\ Commit(Rendered)
    \/ Reset /\ Commit(Rendered)
    \/ RecommendationClick /\ Commit(Rendered)
    \/ ProductImageSettlesOn(BriefProductResponses) /\ Commit(Rendered)

SpecInputs == Init /\ [][NextInputs]_vars

---------------------------------------------------------------------------
(* SpecFair: the asset inputs with well-formed files, one answer of the    *)
(* backend for each way an operation can end, and a backend that answers.  *)

\* A request in flight is answered.
BackendAnswers ==
    \/ SafetyCheckSettlesOn(BriefSafetyResponses) /\ Commit(Rendered)
    \/ TryOnSettlesOn(BriefTryOnResponses) /\ Commit(Rendered)
    \/ RecommendationsSettleOn(BriefRecommendationResponses) /\ Commit(Rendered)
    \/ ReviewSettlesOn(BriefReviewResponses) /\ Commit(Rendered)
    \/ ProductImageSettlesOn(BriefProductResponses) /\ Commit(Rendered)

NextFair ==
    \/ UploadUserImageFrom(WellFormedUserFiles) /\ Commit(TRUE)
    \/ ClearUserImage /\ Commit(Rendered)
    \/ UploadClothingFrom(WellFormedClothingFiles) /\ Commit(TRUE)
    \/ ClearClothingImage /\ Commit(Rendered)
    \/ handleCapture
    \/ CaptureEffect
    \/ clearClothing /\ Commit(Rendered)
    \/ Generate /\ Commit(Rendered)
    \/ BackendAnswers
    \/ Reset /\ Commit(Rendered)
    \/ RecommendationClick /\ Commit(Rendered)

\* While a request is in flight, one of the requests in flight is
\* eventually answered.
SpecFair == Init /\ [][NextFair]_vars /\ WF_vars(BackendAnswers)

---------------------------------------------------------------------------
(* SpecAdapters: the operations of geminiService.ts called on their own,   *)
(* with every token string up to a length as the encoded image.  The       *)
(* operations keep no state of their own, so a behaviour is one call and   *)
(* the answer to its request.                                              *)

\* The longest encoded-image string, in tokens.
MaxTokens == 5

UrlTokens == {"data:", ";base64,", "AAAA", "\n"}
DataUrls == UNION {[1..n -> UrlTokens] : n \in 0..MaxTokens}

\* The other argument of an operation that takes two encoded images.
PairedUrls == {GarmentB.base64, EmptyGarment.base64}

AdapterOps ==
    {"validateClothingSafety", "generateStylistReview", "generateTryOn",
     "generateStyleRecommendations", "generateProductImage"}

\* The arguments an operation is called with, as the request that carries
\* them.
AdapterCalls(op) ==
    CASE op \in {"validateClothingSafety", "generateStyleRecommendations"} ->
           {Call(op, 0, Null, Some(c), Null, Null, Null) : c \in DataUrls}
      [] op = "generateStylistReview" ->
           {Call(op, 0, Some(u), Some(c), Null, Null, Null) :
               u \in DataUrls, c \in PairedUrls}
           \cup {Call(op, 0, Some(u), Some(c), Null, Null, Null) :
                    u \in PairedUrls, c \in DataUrls}
      [] op = "generateTryOn" ->
           {Call(op, 0, Some(u), Some(c), Some(<<>>), Some(PoseOriginal), Null) :
               u \in DataUrls, c \in PairedUrls}
           \cup {Call(op, 0, Some(u), Some(c), Some(<<>>), Some(PoseOriginal), Null) :
                    u \in PairedUrls, c \in DataUrls}
      [] op = "generateProductImage" ->
           {Call(op, 0, Null, Null, Null, Null, Some(RecList[i])) :
               i \in DOMAIN RecList}

\* An operation up to its request.
AdapterStart(call) ==
    CASE call.op = "validateClothingSafety" ->
           validateClothingSafetyStart(call.clothingImageBase64[1])
      [] call.op = "generateStyleRecommendations" ->
           generateStyleRecommendationsStart(call.clothingImageBase64[1])
      [] call.op = "generateStylistReview" ->
           generateStylistReviewStart(call.userImageBase64[1],
                                      call.clothingImageBase64[1])
      [] call.op = "generateTryOn" ->
           generateTryOnStart(call.userImageBase64[1], call.clothingImageBase64[1])
      [] call.op = "generateProductImage" -> Return(call.recommendation[1])

\* An operation on the answer to its request.
AdapterSettle(op, response) ==
    CASE op = "validateClothingSafety" -> validateClothingSafety(response)
      [] op = "generateStyleRecommendations" -> generateStyleRecommendations(response)
      [] op = "generateStylistReview" -> generateStylistReview(response)
      [] op = "generateTryOn" -> generateTryOn(response)
      [] op = "generateProductImage" -> generateProductImage(response)

AdapterResponses(op) ==
    CASE op = "validateClothingSafety" -> SafetyResponses
      [] op = "generateStyleRecommendations" -> RecommendationResponses
      [] op = "generateStylistReview" -> ReviewResponses
      [] op = "generateTryOn" -> TryOnResponses
      [] op = "generateProductImage" -> ProductResponses

AdapterStep(ev, op, request, response, issued, outcome) ==
    [Step(ev, op, 0, request, response, issued, Null, {})
        EXCEPT !.outcome = Some(outcome)]

CallParseBase64 ==
    /\ last.ev = "init"
    /\ \E dataUrl \in DataUrls :
          last' = AdapterStep("call", "parseBase64",
                              Some(Call("parseBase64", 0, Null, Some(dataUrl),
                                        Null, Null, Null)),
                              Null, {}, parseBase64(dataUrl))
    /\ UNCHANGED <<appVars, loadingRecIndex, viewerVars, runs, inflight>>

\* A call of an operation: it rejects before its request or issues it.
CallAdapter ==
    /\ last.ev = "init"
    /\ \E op \in AdapterOps :
          \E call \in AdapterCalls(op) :
              last' = AdapterStep("call", op, Some(call), Null,
                                  IF AdapterStart(call).threw THEN {} ELSE {call},
                                  AdapterStart(call))
    /\ UNCHANGED <<appVars, loadingRecIndex, viewerVars, runs, inflight>>

\* The request of the last call is answered and the operation settles.
AdapterSettles ==
    /\ last.ev = "call"
    /\ last.issued # {}
    /\ \E response \in AdapterResponses(last.op) :
          last' = AdapterStep("settle", last.op, last.request, Some(response),
                              {}, AdapterSettle(last.op, response))
    /\ UNCHANGED <<appVars, loadingRecIndex, viewerVars, runs, inflight>>

NextAdapters ==
    \/ CallParseBase64
    \/ CallAdapter
    \/ AdapterSettles

SpecAdapters == Init /\ [][NextAdapters]_vars

---------------------------------------------------------------------------
(* Properties.  Each is stated over the history of the last step.          *)

\* The last step ended a run of handleTryOn.
TryOnRunEnded == last.finished # Null /\ last.finished[1].kind = "handleTryOn"

\* The last step was the answer to the request of the safety gate, and what
\* validateClothingSafety made of it.
GateSettled == last.ev = "settle" /\ last.op = "validateClothingSafety"
GateOutcome == validateClothingSafety(last.response[1])
GateReturned == GateSettled /\ ~GateOutcome.threw
GateApproved == GateReturned /\ GateOutcome.value[1].valid = Some(TRUE)

TryOnSettled == last.ev = "settle" /\ last.op = "generateTryOn"
ProductSettled == last.ev = "settle" /\ last.op = "generateProductImage"

\* C1: a request of generateTryOn, generateStyleRecommendations or
\* generateStylistReview is issued only in the step in which
\* validateClothingSafety returned valid: true to the same run, and carries
\* the garment string the gate was asked about; a gate that returns anything
\* else ends the run with none of the three issued, and every such request
\* in flight belongs to a run the gate approved.
C1_GateBeforeGeneration ==
    /\ \A c \in last.issued :
          c.op \in GenerationOps =>
              /\ GateApproved
              /\ last.run = c.run
              /\ last.request # Null
              /\ last.request[1].op = "validateClothingSafety"
              /\ last.request[1].run = c.run
              /\ c.clothingImageBase64 = last.request[1].clothingImageBase64
    /\ (GateReturned /\ ~GateApproved) =>
          /\ last.issued = {}
          /\ last.finished # Null
          /\ \A c \in inflight : c.run # last.run
    /\ \A c \in inflight :
          c.op \in GenerationOps =>
              \E r \in runs : /\ r.id = c.run
                              /\ r.safetyCheck # Null
                              /\ r.safetyCheck[1].valid = Some(TRUE)

\* The gate approved and the three generation requests have just been issued.
C1_Witness ==
    /\ GateApproved
    /\ {c.op : c \in last.issued} = GenerationOps

\* C2: when validateClothingSafety returns valid: false, handleTryOn ends
\* with status ERROR and a message that starts with the safety prefix; the
\* message contains the reason when one is given and is the prefix followed
\* by the default text when none is.
C2_SafetyRejectionMessage ==
    (GateReturned /\ GateOutcome.value[1].valid = Some(FALSE)) =>
        /\ status = "ERROR"
        /\ last.finished # Null
        /\ error # Null
        /\ StartsWith(error[1], SafetyPrefix)
        /\ LET reason == GateOutcome.value[1].reason
           IN  IF reason = Null
               THEN error[1] = SafetyPrefix \o SafetyDefaultReason
               ELSE Contains(error[1], reason[1])

\* The gate refused the garment with a reason, and the message quotes it.
C2_Witness ==
    /\ GateReturned
    /\ GateOutcome.value[1] =
           [valid |-> Some(FALSE), reason |-> Some(<<"contains swimwear">>)]
    /\ status = "ERROR"
    /\ error = Some(SafetyPrefix \o <<"contains swimwear">>)

\* C3: when the backend call of validateClothingSafety errors, the gate
\* throws the service-unavailable error and returns no value, and handleTryOn
\* ends with status ERROR and none of the generation requests issued.
C3_GateUnavailable ==
    (GateSettled /\ last.response[1].error) =>
        /\ GateOutcome = Throw(ServiceUnavailableMsg)
        /\ status = "ERROR"
        /\ error = Some(ServiceUnavailableMsg)
        /\ last.issued = {}
        /\ last.finished # Null
        /\ \A c \in inflight : c.run # last.run

\* The backend call of the gate has errored and the run has ended in ERROR.
C3_Witness ==
    /\ GateSettled
    /\ last.response[1].error
    /\ status = "ERROR"
    /\ runs = {}

\* C4: when generateTryOn fails, on the answer to its request or before the
\* request is made, handleTryOn ends with status ERROR, error the message of
\* the failure and result null, whatever the other two calls have done.
C4_TryOnFailureEndsInError ==
    /\ (TryOnSettled /\ generateTryOnBody(last.response[1]).threw) =>
          /\ status = "ERROR"
          /\ last.finished # Null
          /\ error = Some(generateTryOn(last.response[1]).message)
          /\ result = Null
    /\ (GateApproved /\ last.finished # Null) =>
          LET started == generateTryOnStart(last.finished[1].userImage[1].base64,
                                            last.finished[1].clothingImage[1].base64)
          IN  started.threw =>
                  /\ status = "ERROR"
                  /\ error = Some(started.message)
                  /\ result = Null

\* generateTryOn has failed after the recommendations and the review were
\* both there.
C4_Witness ==
    /\ TryOnSettled
    /\ generateTryOnBody(last.response[1]).threw
    /\ last.finished # Null
    /\ last.finished[1].recommendations # Null
    /\ last.finished[1].recommendations[1].value = RecList
    /\ last.finished[1].stylistReview # Null
    /\ status = "ERROR"

\* C5: the answer to the request of generateStyleRecommendations or of
\* generateStylistReview never ends a run in ERROR, and a run in which
\* generateTryOn succeeded ends with status SUCCESS, the image of
\* generateTryOn, the empty list when the recommendations call failed at the
\* backend and the fixed fallback text when the review call failed there.
C5_EnrichmentFailureStillSucceeds ==
    /\ (last.ev = "settle"
        /\ last.op \in {"generateStyleRecommendations", "generateStylistReview"}) =>
          status = (IF last.finished = Null THEN "PROCESSING" ELSE "SUCCESS")
    /\ (TryOnRunEnded /\ last.finished[1].tryOnResult # Null) =>
          /\ status = "SUCCESS"
          /\ result # Null
          /\ result[1].imageUrl = last.finished[1].tryOnResult[1].value.imageUrl
          /\ StartsWith(result[1].imageUrl, PngPrefix)
          /\ Len(result[1].imageUrl) > Len(PngPrefix)
          /\ last.finished[1].recommendations # Null
          /\ last.finished[1].stylistReview # Null
          /\ last.finished[1].recommendations[1].response.error =>
                 result[1].recommendations = <<>>
          /\ last.finished[1].stylistReview[1].response.error =>
                 result[1].feedback = ReviewFailedFallback

\* A run has ended in SUCCESS although the backend calls of both enrichment
\* operations failed.
C5_Witness ==
    /\ TryOnRunEnded
    /\ status = "SUCCESS"
    /\ last.finished[1].recommendations[1].response.error
    /\ last.finished[1].stylistReview[1].response.error
    /\ result[1].recommendations = <<>>
    /\ result[1].feedback = ReviewFailedFallback

\* C6: a run in which the three calls are fulfilled ends with status SUCCESS
\* and a result whose fields are the values of generateTryOn,
\* generateStyleRecommendations and generateStylistReview, each from its own
\* call: the image, the list and the text the backend answered with.
C6_ResultFromItsOwnCalls ==
    (/\ TryOnRunEnded
     /\ last.finished[1].tryOnResult # Null
     /\ last.finished[1].recommendations # Null
     /\ last.finished[1].stylistReview # Null) =>
        LET tryOn == last.finished[1].tryOnResult[1]
            recs == last.finished[1].recommendations[1]
            review == last.finished[1].stylistReview[1]
        IN  /\ status = "SUCCESS"
            /\ result = Some([imageUrl |-> tryOn.value.imageUrl,
                              recommendations |-> recs.value,
                              feedback |-> review.value])
            /\ tryOn.response = PartsResponse(<<ImagePart(ImageC)>>) =>
                   result[1].imageUrl = PngPrefix \o ImageC
            /\ recs.response = TextResponse(Some(JsonText(RecList))) =>
                   result[1].recommendations = RecList
            /\ review.response = TextResponse(Some(ReviewT)) =>
                   result[1].feedback = ReviewT

\* The three calls answered with image C, list L and text T, the
\* recommendations last, and the result is made of the three.
C6_Witness ==
    /\ TryOnRunEnded
    /\ last.op = "generateStyleRecommendations"
    /\ status = "SUCCESS"
    /\ result = Some([imageUrl |-> PngPrefix \o ImageC,
                      recommendations |-> RecList,
                      feedback |-> ReviewT])

\* C7, as stated: once the gate has approved, the three generation requests
\* are issued in one step, and a run of handleTryOn that ends leaves none of
\* its requests unanswered.
C7_AllSettledBeforeLeavingProcessing ==
    /\ (GateApproved /\ last.finished = Null) =>
          {c.op : c \in last.issued} = GenerationOps
    /\ TryOnRunEnded => last.abandoned = {}

\* C7, amended: once the gate has approved, the three generation operations
\* are called in one step, before any is awaited, each issuing its request
\* unless it rejects first; a run ends in SUCCESS only when the three have
\* settled, with no request left; a run that leaves requests unanswered ends
\* in ERROR, in the step in which one of the three rejected.
C7_JoinIsFailFast ==
    /\ (GateApproved /\ last.finished = Null) =>
          /\ {c.op : c \in last.issued} = GenerationOps
          /\ Cardinality(last.issued) = 3
          /\ status = "PROCESSING"
    /\ (TryOnRunEnded /\ status = "SUCCESS") =>
          /\ last.finished[1].tryOnResult # Null
          /\ last.finished[1].recommendations # Null
          /\ last.finished[1].stylistReview # Null
          /\ last.abandoned = {}
          /\ \A c \in inflight : c.run # last.run
    /\ (TryOnRunEnded /\ last.abandoned # {}) =>
          /\ status = "ERROR"
          /\ \/ TryOnSettled /\ generateTryOnBody(last.response[1]).threw
             \/ GateApproved
          /\ \A c \in last.abandoned : c.op \in GenerationOps

\* generateTryOn has rejected and the run has ended in ERROR while the
\* requests of the other two calls are unanswered.
C7_Witness ==
    /\ TryOnRunEnded
    /\ TryOnSettled
    /\ status = "ERROR"
    /\ {c.op : c \in last.abandoned} =
           {"generateStyleRecommendations", "generateStylistReview"}

\* C8: at most one run of handleTryOn or handleApplyRecommendation is
\* suspended at an await, and one is exactly while status is PROCESSING; a
\* generate action or a recommendation click that starts a run finds no other.
C8_OneRunAtATime ==
    /\ Cardinality(runs) <= 1
    /\ (runs # {}) <=> (status = "PROCESSING")
    /\ (last.ev \in {"generate", "recommendationClick"} /\ last.issued # {}) =>
          \A r \in runs : r.id = last.run

\* A generate action arrived while a run was in flight, and started nothing.
C8_Witness ==
    /\ Cardinality(runs) = 1
    /\ status = "PROCESSING"
    /\ last.ev = "generate"
    /\ last.issued = {}
    /\ userImage # Null
    /\ clothingImage # Null

\* While a 3D model is selected the garment is absent or a captured snapshot.
ModelGarmentIsSnapshot ==
    (clothingModelUrl # Null /\ clothingImage # Null) =>
        clothingImage[1].file = <<"snapshot", ".png">>

\* A generate action without the person or the garment.
RefusedGenerate ==
    (last'.ev = "generate" /\ (userImage = Null \/ clothingImage = Null)) =>
        /\ UNCHANGED <<appVars, loadingRecIndex, runs, inflight>>
        /\ last'.issued = {}
        /\ last'.finished = Null

\* C9: a generate action while the person or the garment is absent changes
\* neither status, result nor error and issues no request; a selected 3D
\* model without a captured snapshot is a garment that is absent.
C9_GenerateNeedsBothAssets ==
    /\ []ModelGarmentIsSnapshot
    /\ [][RefusedGenerate]_vars

\* A generate action with a 3D model selected and no snapshot captured.
C9_Witness ==
    /\ last.ev = "generate"
    /\ userImage # Null
    /\ clothingModelUrl # Null
    /\ clothingImage = Null
    /\ status = "IDLE"
    /\ last.issued = {}
    /\ runs = {}

\* C10: when generateProductImage succeeds for the recommendation rec, the
\* garment is the image it returned, no 3D model is selected, result is
\* null, status is IDLE and the instructions contain rec.colorHex and
\* rec.itemName.
C10_ApplyRecommendationSucceeds ==
    (ProductSettled /\ ~generateProductImageBody(last.response[1]).threw) =>
        LET rec == last.request[1].recommendation[1]
            image == generateProductImage(last.response[1]).value[1]
        IN  /\ clothingImage # Null
            /\ clothingImage[1].base64 = image
            /\ clothingImage[1].previewUrl = image
            /\ StartsWith(image, PngPrefix)
            /\ clothingModelUrl = Null
            /\ result = Null
            /\ status = "IDLE"
            /\ Contains(instructions, rec.colorHex)
            /\ Contains(instructions, rec.itemName)
            /\ last.finished # Null

\* The product image of the second recommendation has arrived and is the
\* garment.
C10_Witness ==
    /\ ProductSettled
    /\ last.request[1].recommendation[1] = RecList[2]
    /\ clothingImage # Null
    /\ clothingImage[1].base64 = PngPrefix \o ImageP
    /\ status = "IDLE"

\* The last step was the answer to the request of generateProductImage, and
\* the operation failed on it.
ProductFailed == ProductSettled /\ generateProductImageBody(last.response[1]).threw

\* A step in which generateProductImage fails.
ProductFailsStep ==
    /\ last'.ev = "settle"
    /\ last'.op = "generateProductImage"
    /\ generateProductImageBody(last'.response[1]).threw

ApplyFailureKeepsGarment ==
    ProductFailsStep =>
        /\ status' = "IDLE"
        /\ error' = Some(ApplyFailedMsg)
        /\ UNCHANGED <<clothingImage, clothingModelUrl>>

\* C11: when generateProductImage fails, handleApplyRecommendation ends with
\* status IDLE, never ERROR, the fixed message as error, and the garment and
\* the 3D model selection as they were when the answer arrived.
C11_ApplyFailureIsSoft == [][ApplyFailureKeepsGarment]_vars

\* generateProductImage has failed and the garment of the cycle is still
\* there.
C11_Witness ==
    /\ ProductFailed
    /\ status = "IDLE"
    /\ error = Some(ApplyFailedMsg)
    /\ clothingImage = Some(GarmentB)

\* C12, as stated: after generateProductImage has failed, the message that
\* handleApplyRecommendation set is among what ResultDisplay renders.
C12_ApplyFailureIsShown ==
    ProductFailed => (error # Null /\ error[1] \in ResultDisplay)

\* generateProductImage has failed, the message is held in error, and
\* ResultDisplay renders its IDLE branch without it.
C12_Witness ==
    /\ ProductFailed
    /\ error = Some(ApplyFailedMsg)
    /\ ResultDisplay = {IdleText}

\* C13, as stated: when the request of validateClothingSafety is answered
\* without a transport error and the text is absent, empty or not JSON, the
\* gate returns valid: false.
C13_UnparseableAnswerReturnsInvalid ==
    (/\ GateSettled
     /\ ~last.response[1].error
     /\ \/ last.response[1].text = Null
        \/ last.response[1].text[1] = <<>>
        \/ JSONparse(last.response[1].text[1]).threw) =>
        /\ ~GateOutcome.threw
        /\ GateOutcome.value[1].valid = Some(FALSE)

\* The gate was answered with a text that is not JSON and threw the
\* service-unavailable error.
C13_Witness ==
    /\ GateSettled
    /\ last.response[1] = TextResponse(Some(NotJson))
    /\ GateOutcome = Throw(ServiceUnavailableMsg)
    /\ error = Some(ServiceUnavailableMsg)

\* The two enrichment operations.
EnrichmentOps == {"generateStyleRecommendations", "generateStylistReview"}

\* The encoded images a request carries.
ImageArguments(call) ==
    (IF call.userImageBase64 = Null THEN {} ELSE {call.userImageBase64[1]})
    \cup (IF call.clothingImageBase64 = Null THEN {}
          ELSE {call.clothingImageBase64[1]})

\* C14, as stated: neither generateStyleRecommendations nor
\* generateStylistReview ever throws, whatever its arguments and whatever the
\* backend answers.
C14_EnrichmentNeverRejects ==
    (last.op \in EnrichmentOps /\ last.outcome # Null) => ~last.outcome[1].threw

\* C14, amended: generateStyleRecommendations and generateStylistReview
\* throw exactly when parseBase64 refuses one of their encoded images, with
\* its format error and before any request; handleTryOn has then already
\* seen the same error from validateClothingSafety or generateTryOn, called
\* before them with the same strings.  On every answer of the backend they
\* return: the empty list or the fixed text when the backend call failed.
C14_EnrichmentRejectsOnlyOnFormat ==
    (last.op \in EnrichmentOps /\ last.outcome # Null) =>
        LET call == last.request[1]
            refused == \E s \in ImageArguments(call) : parseBase64(s).threw
        IN  /\ last.ev = "call" =>
                /\ last.outcome[1].threw <=> refused
                /\ refused =>
                      /\ last.outcome[1] = Throw(InvalidBase64Msg)
                      /\ last.issued = {}
                      /\ IF call.op = "generateStylistReview"
                         THEN generateTryOnStart(call.userImageBase64[1],
                                                 call.clothingImageBase64[1])
                                  = Throw(InvalidBase64Msg)
                         ELSE validateClothingSafetyStart(call.clothingImageBase64[1])
                                  = Throw(InvalidBase64Msg)
            /\ last.ev = "settle" =>
                /\ ~last.outcome[1].threw
                /\ last.response[1].error =>
                      last.outcome[1].value[1] =
                          (IF call.op = "generateStylistReview"
                           THEN ReviewFailedFallback ELSE <<>>)

\* generateStylistReview was called with a person image that is no data URL
\* and threw the format error.
C14_Witness ==
    /\ last.ev = "call"
    /\ last.op = "generateStylistReview"
    /\ last.request[1].userImageBase64 = Some(<<"AAAA">>)
    /\ last.request[1].clothingImageBase64 = Some(GarmentB.base64)
    /\ last.outcome = Some(Throw(InvalidBase64Msg))

\* The string parseBase64 was called with in the last step.
ParsedString == last.request[1].clothingImageBase64[1]

\* data:<mime>;base64,<payload> with a mime and a payload of one token or more.
HasDataUrlShape(str) ==
    \E k \in 3..(Len(str) - 1) : str[1] = "data:" /\ str[k] = ";base64,"

NoLineTerminator(str) == \A i \in DOMAIN str : str[i] \notin LineTerminators

Reencode(parsed) ==
    <<"data:">> \o parsed.mimeType \o <<";base64,">> \o parsed.data

\* C15, as stated: parseBase64 returns on every string of the shape
\* data:<mime>;base64,<payload>, and the pair re-encodes to the string.
C15_RoundTrip ==
    (last.op = "parseBase64" /\ HasDataUrlShape(ParsedString)) =>
        /\ ~last.outcome[1].threw
        /\ Reencode(last.outcome[1].value[1]) = ParsedString

\* C15, amended: parseBase64 returns on every string of the shape
\* data:<mime>;base64,<payload> that holds no line terminator, and whenever
\* it returns, the mime and the payload are not empty and the pair
\* re-encodes to the string.
C15_RoundTripOnOneLine ==
    last.op = "parseBase64" =>
        /\ (HasDataUrlShape(ParsedString) /\ NoLineTerminator(ParsedString)) =>
               ~last.outcome[1].threw
        /\ ~last.outcome[1].threw =>
               /\ Reencode(last.outcome[1].value[1]) = ParsedString
               /\ last.outcome[1].value[1].mimeType # <<>>
               /\ last.outcome[1].value[1].data # <<>>

\* parseBase64 has split a string with two separators at the last one.
C15_Witness ==
    /\ last.op = "parseBase64"
    /\ ParsedString = <<"data:", "AAAA", ";base64,", ";base64,", "AAAA">>
    /\ last.outcome =
           Some(Return([mimeType |-> <<"AAAA", ";base64,">>, data |-> <<"AAAA">>]))

\* C16: on a string that has not the shape data:<mime>;base64,<payload>,
\* parseBase64 throws the format error and returns nothing, and every
\* operation that takes an encoded image throws that error without issuing
\* its request when one of its images is such a string.
C16_MalformedStringFailsBeforeRequest ==
    /\ (last.op = "parseBase64" /\ ~HasDataUrlShape(ParsedString)) =>
          last.outcome = Some(Throw(InvalidBase64Msg))
    /\ (/\ last.ev = "call"
        /\ last.op \in AdapterOps
        /\ \E str \in ImageArguments(last.request[1]) : ~HasDataUrlShape(str)) =>
          /\ last.outcome = Some(Throw(InvalidBase64Msg))
          /\ last.issued = {}

\* generateTryOn was called with a garment string whose payload is empty,
\* threw the format error and issued nothing.
C16_Witness ==
    /\ last.ev = "call"
    /\ last.op = "generateTryOn"
    /\ last.request[1].userImageBase64 = Some(GarmentB.base64)
    /\ last.request[1].clothingImageBase64 = Some(<<"data:", "AAAA", ";base64,">>)
    /\ last.outcome = Some(Throw(InvalidBase64Msg))
    /\ last.issued = {}

\* C17: a generate action that starts a run leaves status PROCESSING with
\* result and error null, and both stay null for as long as the run of
\* handleTryOn is suspended.
C17_ProcessingHoldsNoOldOutcome ==
    /\ (last.ev = "generate" /\ last.issued # {}) =>
          /\ status = "PROCESSING"
          /\ result = Null
          /\ error = Null
    /\ \A r \in runs :
          r.kind = "handleTryOn" =>
              /\ status = "PROCESSING"
              /\ result = Null
              /\ error = Null

\* A run of handleTryOn is waiting for the three generation calls, started
\* after a recommendation had been clicked.
C17_Witness ==
    /\ \E r \in runs : r.kind = "handleTryOn" /\ r.pc = "Promise.all"
    /\ loadingRecIndex # Null
    /\ result = Null
    /\ error = Null

\* The last step was a generate action that handleTryOn took up.
GenerateAccepted ==
    last.ev = "generate" /\ (last.issued # {} \/ last.finished # Null)

\* A step that leaves SUCCESS.
LeavesSuccess == status = "SUCCESS" /\ status' # "SUCCESS"

\* C18, as stated: handleTryOn takes up a generate action only from IDLE or
\* ERROR.
C18_GenerateOnlyFromIdleOrError ==
    GenerateAccepted => last.from \in {"IDLE", "ERROR"}

\* C18, amended: handleTryOn takes up a generate action from IDLE, ERROR or
\* SUCCESS, with both assets present and never from PROCESSING; SUCCESS is
\* left by a reset for IDLE, by a recommendation click for PROCESSING, or by
\* a generate action for PROCESSING (for ERROR when the garment string is
\* refused at once).
C18_GenerateFromAnyRestingStatus ==
    /\ [](GenerateAccepted =>
            /\ last.from \in {"IDLE", "ERROR", "SUCCESS"}
            /\ userImage # Null
            /\ clothingImage # Null)
    /\ [][LeavesSuccess =>
            \/ last'.ev = "reset" /\ status' = "IDLE"
            \/ last'.ev = "recommendationClick" /\ status' = "PROCESSING"
            \/ /\ last'.ev = "generate"
               /\ \/ status' = "PROCESSING" /\ last'.issued # {}
                  \/ status' = "ERROR" /\ last'.finished # Null]_vars

\* A generate action in SUCCESS has started a run.
C18_Witness ==
    /\ last.ev = "generate"
    /\ last.issued # {}
    /\ last.from = "SUCCESS"
    /\ status = "PROCESSING"

\* C19: a recommendation click starts from SUCCESS and issues one request,
\* of generateProductImage; a run of handleApplyRecommendation awaits that
\* request alone, and the step that ends it issues nothing and leaves no
\* run behind.
C19_ApplyRunsProductImageOnly ==
    /\ last.ev = "recommendationClick" =>
          /\ last.from = "SUCCESS"
          /\ Cardinality(last.issued) = 1
          /\ \A c \in last.issued : c.op = "generateProductImage"
    /\ \A r \in runs :
          r.kind = "handleApplyRecommendation" =>
              {c.op : c \in {d \in inflight : d.run = r.id}} =
                  {"generateProductImage"}
    /\ ProductSettled =>
          /\ last.issued = {}
          /\ runs = {}
          /\ inflight = {}
          /\ status = "IDLE"

\* The product image has arrived, the garment is replaced and nothing runs.
C19_Witness ==
    /\ ProductSettled
    /\ ~ProductFailed
    /\ runs = {}
    /\ inflight = {}
    /\ clothingImage # Null
    /\ clothingImage[1].file = RecList[1].itemName \o <<".png">>

ResetIsAFrame ==
    last'.ev = "reset" =>
        /\ status \in {"SUCCESS", "ERROR"}
        /\ status' = "IDLE"
        /\ result' = Null
        /\ error' = Null
        /\ UNCHANGED <<userImage, clothingImage, clothingModelUrl, instructions,
                       rotation, useCustomRotation>>

\* C20: a reset, which is offered in SUCCESS and ERROR, sets status IDLE,
\* result null and error null and leaves the person, the garment, the 3D
\* model, the instructions and the pose settings as they were.
C20_ResetKeepsInputs == [][ResetIsAFrame]_vars

\* A reset from ERROR with both assets, instructions and a custom pose set.
C20_Witness ==
    /\ last.ev = "reset"
    /\ last.from = "ERROR"
    /\ status = "IDLE"
    /\ userImage # Null
    /\ clothingImage # Null
    /\ instructions # <<>>
    /\ useCustomRotation
    /\ rotation = 90

---------------------------------------------------------------------------
(* C21 *)

\* The run the last step ended left the status its handler ends in.
RunEndedAsItsHandlerEnds ==
    last.finished # Null =>
        /\ last.finished[1].kind = "handleTryOn" => status \in {"SUCCESS", "ERROR"}
        /\ last.finished[1].kind = "handleApplyRecommendation" => status = "IDLE"

\* While the status is PROCESSING a run of a handler awaits a request.
ProcessingAwaitsARequest ==
    status = "PROCESSING" =>
        /\ Cardinality(runs) = 1
        /\ \A r \in runs : CallsOf(r) # {}

\* C21: with a backend that answers every request, a status of PROCESSING
\* is followed by another status: a run of handleTryOn ends in SUCCESS or
\* ERROR, a run of handleApplyRecommendation ends in IDLE, and PROCESSING
\* always awaits a request that is in flight.
C21_ProcessingEnds ==
    /\ []RunEndedAsItsHandlerEnds
    /\ []ProcessingAwaitsARequest
    /\ (status = "PROCESSING") ~> (status # "PROCESSING")

\* A run of handleApplyRecommendation that failed has left PROCESSING, and
\* a run of handleTryOn has ended before it.
C21_Witness ==
    /\ last.finished # Null
    /\ last.finished[1].kind = "handleApplyRecommendation"
    /\ last.from = "PROCESSING"
    /\ status = "IDLE"
    /\ error = Some(ApplyFailedMsg)
    /\ runs = {}

---------------------------------------------------------------------------
(* C22 *)

\* The requests of generateTryOn the last step issued.
TryOnIssued == {c \in last.issued : c.op = "generateTryOn"}

\* The run an accepted generate action started has the pose the controls
\* show: the sentinel while custom rotation is off, else the slider's angle.
PoseFollowsTheControls ==
    (last.ev = "generate" /\ last.issued # {}) =>
        \A r \in runs :
            r.id = last.run =>
                /\ ~useCustomRotation => r.pose = PoseOriginal
                /\ useCustomRotation => r.pose = PoseDegrees(rotation)

\* C22 as claimed: the pose passed to generateTryOn is the sentinel or a
\* whole number of degrees from 0 up to, not including, 360.
C22_PoseInHalfOpenRange ==
    /\ PoseFollowsTheControls
    /\ \A c \in TryOnIssued :
          \/ c.pose[1] = PoseOriginal
          \/ \E n \in 0..359 : c.pose[1] = PoseDegrees(n)

\* C22: the pose passed to generateTryOn is the sentinel (custom rotation
\* off) or a whole number of degrees from 0 to 360, both included.
C22_PoseInClosedRange ==
    /\ PoseFollowsTheControls
    /\ \A c \in TryOnIssued :
          \/ c.pose[1] = PoseOriginal
          \/ \E n \in RotationMin..RotationMax : c.pose[1] = PoseDegrees(n)

\* generateTryOn is called with the slider at its maximum.
C22_Witness ==
    /\ last.ev = "settle"
    /\ last.op = "validateClothingSafety"
    /\ \E c \in TryOnIssued : c.pose[1] = PoseDegrees(RotationMax)
    /\ status = "PROCESSING"

---------------------------------------------------------------------------
(* C23 *)

\* C23: in SUCCESS a result with an image is held and no error; in ERROR a
\* non-empty error message is held and no result.
C23_StatusShapesResultAndError ==
    /\ status = "SUCCESS" =>
          /\ result # Null
          /\ result[1].imageUrl # <<>>
          /\ error = Null
    /\ status = "ERROR" =>
          /\ error # Null
          /\ error[1] # <<>>
          /\ result = Null

\* A cycle ended in SUCCESS; its run had started with generate.
C23_Witness ==
    /\ status = "SUCCESS"
    /\ TryOnRunEnded
    /\ last.from = "PROCESSING"
    /\ result # Null
    /\ StartsWith(result[1].imageUrl, PngPrefix)
    /\ error = Null

---------------------------------------------------------------------------
(* C24 *)

\* The run an accepted generate action starts holds the person, the garment,
\* the instructions and the pose of the state the action was taken in, and
\* its request to the gate carries that garment.
GenerateCapturesTheInputs ==
    (last'.ev = "generate" /\ last'.issued # {}) =>
        /\ \A r \in runs' \ runs :
              /\ r.userImage = userImage
              /\ r.clothingImage = clothingImage
              /\ r.instructions = instructions
              /\ r.pose = IF useCustomRotation THEN PoseDegrees(rotation)
                          ELSE PoseOriginal
        /\ \A c \in last'.issued :
              c.clothingImageBase64 = Some(clothingImage[1].base64)

\* While a run awaits the gate, no step changes what it holds.
AwaitingRunKeepsItsInputs ==
    \A r \in runs, r2 \in runs' :
        (r.id = r2.id /\ r2.pc = "validateClothingSafety") => r2 = r

\* The requests made when the gate has answered carry what the run holds:
\* all of them the garment that went to the gate, and generateTryOn the
\* person, the instructions and the pose as well.
FanOutUsesTheCapturedInputs ==
    (last'.ev = "settle" /\ last'.op = "validateClothingSafety") =>
        \A r \in runs :
            r.id = last'.run =>
                \A c \in last'.issued :
                    /\ c.clothingImageBase64 = r.request[1].clothingImageBase64
                    /\ c.clothingImageBase64 = Some(r.clothingImage[1].base64)
                    /\ c.op \in {"generateTryOn", "generateStylistReview"} =>
                           c.userImageBase64 = Some(r.userImage[1].base64)
                    /\ c.op = "generateTryOn" =>
                           /\ c.instructions = Some(r.instructions)
                           /\ c.pose = Some(r.pose)

\* A step of an input control or of the viewer changes no run, no request
\* in flight and no result.
InputsLeaveTheCycle ==
    last'.ev \in {"input", "capture"} =>
        UNCHANGED <<runs, inflight, result, status, error>>

\* C24: a cycle uses the person, the garment, the instructions and the pose
\* as they were when generate was triggered, with one garment for the gate
\* and the generation calls; changing an input while the cycle runs changes
\* neither its requests nor its result.
C24_CycleUsesInputsOfItsTrigger ==
    [][/\ GenerateCapturesTheInputs
       /\ AwaitingRunKeepsItsInputs
       /\ FanOutUsesTheCapturedInputs
       /\ InputsLeaveTheCycle]_vars

\* The generation requests are made after the garment was cleared and the
\* instructions and the pose were changed while the gate was awaited.
C24_Witness ==
    /\ last.ev = "settle"
    /\ last.op = "validateClothingSafety"
    /\ status = "PROCESSING"
    /\ clothingImage = Null
    /\ \E c \in TryOnIssued :
          /\ c.clothingImageBase64 = Some(GarmentB.base64)
          /\ c.instructions # Some(instructions)
          /\ c.pose # Some(pose)

---------------------------------------------------------------------------
(* C25 *)

\* C25 as claimed: every snapshot handed to the workflow is the one snapshot
\* of a press of Capture View: the capture effect hands one over only when
\* captureTrigger changed, never because App rendered and passed a new
\* onCapture.
C25_OneCapturePerPress ==
    last.ev = "capture" => last.op = "captureTrigger"

\* After one press the capture effect has run again with no further press,
\* made to run by the new onCapture of a render of App, and is due again.
C25_Witness ==
    /\ last.ev = "capture"
    /\ last.op = "onCapture"
    /\ captureTrigger = 1
    /\ changedDeps = {"onCapture"}
    /\ clothingImage # Null
    /\ clothingImage[1].base64 = SnapshotData

====
